---- MODULE Spec2Model ----
(***************************************************************************)
(* Model of src/main.py: the /extract-invoice-data/ handler, its field     *)
(* rules (safe_search), the item-row reconciler and the Google Sheets      *)
(* appends.  Python str values are TLA+ strings; TLC treats a string as a  *)
(* sequence of one-character strings (Len, SubSeq, \o).                    *)
(***************************************************************************)
EXTENDS Integers, Sequences, FiniteSets, TLC

(***************************************************************************)
(* Characters and str methods                                              *)
(***************************************************************************)
Ch(s, i) == SubSeq(s, i, i)

Min(S) == CHOOSE x \in S : \A y \in S : x <= y

Max(S) == CHOOSE x \in S : \A y \in S : x >= y

UpperCase == "ABCDEFGHIJKLMNOPQRSTUVWXYZ"

LowerCase == "abcdefghijklmnopqrstuvwxyz"

AlphabetLen == Len(UpperCase)

Digit == {"0", "1", "2", "3", "4", "5", "6", "7", "8", "9"}

Letter == {Ch(UpperCase, i) : i \in 1..AlphabetLen} \cup {Ch(LowerCase, i) : i \in 1..AlphabetLen}

\* What \s matches and what str.strip() strips, among the characters of the
\* texts modelled.
WhiteSpace == {" ", "\n", "\t", "\r", "\f"}

LowerOf == [c \in {Ch(UpperCase, i) : i \in 1..AlphabetLen} |->
               Ch(LowerCase, CHOOSE i \in 1..AlphabetLen : Ch(UpperCase, i) = c)]

\* str.lower() of one character: what re.IGNORECASE compares
ToLower(c) == IF c \in DOMAIN LowerOf THEN LowerOf[c] ELSE c

\* str.strip()
PyStrip(s) ==
    LET keep == {i \in 1..Len(s) : Ch(s, i) \notin WhiteSpace}
    IN  IF keep = {} THEN "" ELSE SubSeq(s, Min(keep), Max(keep))

\* str.find(old, from): the first index >= from where old occurs, 0 if none.
PyFind(s, old, from) ==
    LET at == {i \in from..(Len(s) - Len(old) + 1) : SubSeq(s, i, i + Len(old) - 1) = old}
    IN  IF at = {} THEN 0 ELSE Min(at)

RECURSIVE PyReplaceFrom(_, _, _, _)
PyReplaceFrom(s, old, new, from) ==
    LET i == PyFind(s, old, from)
    IN  IF i = 0 THEN SubSeq(s, from, Len(s))
        ELSE SubSeq(s, from, i - 1) \o new \o PyReplaceFrom(s, old, new, i + Len(old))

\* str.replace(old, new), old non-empty
PyReplace(s, old, new) == PyReplaceFrom(s, old, new, 1)

(***************************************************************************)
(* Regular expressions (module re).  A pattern is a sequence of            *)
(* instructions run by a backtracking matcher, alternatives tried in       *)
(* pattern order, as re does.                                              *)
(***************************************************************************)
Lit(str) == [t |-> "lit", str |-> str]

Set(S) == [t |-> "set", chars |-> S]

Dot == [t |-> "dot"]

\* cm{min,max}, max = -1 for no upper limit; cm is a Set, a Dot or a
\* one-character Lit.
Rep(cm, min, max, greedy) == [t |-> "rep", cm |-> cm, min |-> min, max |-> max, greedy |-> greedy]

Star(cm) == Rep(cm, 0, -1, TRUE)

Plus(cm) == Rep(cm, 1, -1, TRUE)

Opt(cm) == Rep(cm, 0, 1, TRUE)

LazyStar(cm) == Rep(cm, 0, -1, FALSE)

LazyPlus(cm) == Rep(cm, 1, -1, FALSE)

GroupOpen(n) == [t |-> "open", n |-> n]

GroupClose(n) == [t |-> "close", n |-> n]

\* ( p ) as capture group n
Group(n, p) == <<GroupOpen(n)>> \o p \o <<GroupClose(n)>>

\* (?: p1 | p2 | ... )
Alt(ps) == [t |-> "alt", ps |-> ps]

\* (?= p )
LookAhead(p) == [t |-> "look", p |-> p]

Bol == [t |-> "bol"]

Eol == [t |-> "eol"]

\* \s, \d, [\d.], [A-Za-z]
ClassS == Set(WhiteSpace)

ClassD == Set(Digit)

ClassNum == Set(Digit \cup {"."})

ClassAlpha == Set(Letter)

\* The flags argument of re.search / re.findall.
Flags(ic, dotall, ml) == [ic |-> ic, dotall |-> dotall, ml |-> ml]

MaxGroups == 6

NoCaps == [n \in 1..MaxGroups |-> <<0, 0>>]

\* A matcher position: the next index to read, where the match began, and
\* the capture groups' spans (start, end exclusive; <<0, 0>> unset).
NoMatch == [pos |-> 0, start |-> 0, caps |-> NoCaps]

StartAt(i) == [pos |-> i, start |-> i, caps |-> NoCaps]

CharOk(cm, c, fl) ==
    CASE cm.t = "dot" -> fl.dotall \/ c # "\n"
      [] cm.t = "set" ->
           c \in cm.chars \/ (fl.ic /\ c \in Letter /\ \E d \in cm.chars : ToLower(d) = ToLower(c))
      [] cm.t = "lit" -> IF fl.ic THEN ToLower(c) = ToLower(cm.str) ELSE c = cm.str

LitOk(str, s, p, fl) ==
    /\ p + Len(str) - 1 <= Len(s)
    /\ \A k \in 1..Len(str) :
          IF fl.ic THEN ToLower(Ch(s, p + k - 1)) = ToLower(Ch(str, k))
          ELSE Ch(s, p + k - 1) = Ch(str, k)

\* How many consecutive characters from p the character matcher accepts.
RunLen(cm, s, p, fl) ==
    IF p > Len(s) \/ ~CharOk(cm, Ch(s, p), fl) THEN 0
    ELSE LET bad == {j \in p..Len(s) : ~CharOk(cm, Ch(s, j), fl)}
         IN  IF bad = {} THEN Len(s) + 1 - p ELSE Min(bad) - p

BolOk(s, p, fl) == p = 1 \/ (fl.ml /\ Ch(s, p - 1) = "\n")

EolOk(s, p, fl) ==
    \/ p = Len(s) + 1
    \/ p = Len(s) /\ Ch(s, p) = "\n"
    \/ fl.ml /\ p <= Len(s) /\ Ch(s, p) = "\n"

IsMatch(m) == m.pos # 0

\* The first match among the results of the alternatives, in their order.
FirstMatch(results) ==
    LET ok == SelectSeq(results, IsMatch)
    IN  IF ok = <<>> THEN NoMatch ELSE Head(ok)

RECURSIVE Run(_, _, _, _)
Run(prog, st, s, fl) ==
    IF prog = <<>> THEN st
    ELSE
    LET ins == Head(prog)
        rest == Tail(prog)
        p == st.pos
    IN  CASE ins.t = "lit" ->
               IF LitOk(ins.str, s, p, fl)
               THEN Run(rest, [st EXCEPT !.pos = p + Len(ins.str)], s, fl)
               ELSE NoMatch
          [] ins.t \in {"set", "dot"} ->
               IF p <= Len(s) /\ CharOk(ins, Ch(s, p), fl)
               THEN Run(rest, [st EXCEPT !.pos = p + 1], s, fl)
               ELSE NoMatch
          [] ins.t = "rep" ->
               LET run == RunLen(ins.cm, s, p, fl)
                   hi == IF ins.max >= 0 /\ run > ins.max THEN ins.max ELSE run
                   n == hi - ins.min + 1
                   take(i) == IF ins.greedy THEN hi - (i - 1) ELSE ins.min + (i - 1)
               IN  IF n <= 0 THEN NoMatch
                   ELSE FirstMatch([i \in 1..n |-> Run(rest, [st EXCEPT !.pos = p + take(i)], s, fl)])
          [] ins.t = "open" -> Run(rest, [st EXCEPT !.caps[ins.n] = <<p, 0>>], s, fl)
          [] ins.t = "close" -> Run(rest, [st EXCEPT !.caps[ins.n] = <<@[1], p>>], s, fl)
          [] ins.t = "alt" ->
               FirstMatch([i \in 1..Len(ins.ps) |-> Run(ins.ps[i] \o rest, st, s, fl)])
          [] ins.t = "look" ->
               IF Run(ins.p, st, s, fl).pos # 0 THEN Run(rest, st, s, fl) ELSE NoMatch
          [] ins.t = "bol" -> IF BolOk(s, p, fl) THEN Run(rest, st, s, fl) ELSE NoMatch
          [] ins.t = "eol" -> IF EolOk(s, p, fl) THEN Run(rest, st, s, fl) ELSE NoMatch

\* The first match that starts at index from or later (NoMatch if none).
SearchFrom(prog, s, fl, from) ==
    IF from > Len(s) + 1 THEN NoMatch
    ELSE FirstMatch([k \in 1..(Len(s) + 2 - from) |-> Run(prog, StartAt(from + k - 1), s, fl)])

\* re.search(pattern, text, flags)
re_search(prog, s, fl) == SearchFrom(prog, s, fl, 1)

\* match.group(n); GroupIsNone(m, n) tells a group that took no part.
GroupIsNone(m, n) == m.caps[n] = <<0, 0>>

group(m, n, s) == SubSeq(s, m.caps[n][1], m.caps[n][2] - 1)

\* re.findall(pattern, text, flags): the tuple of groups of each match; m
\* is the first match not yet collected.
RECURSIVE FindallMore(_, _, _, _, _)
FindallMore(prog, ngroups, s, fl, m) ==
    IF m.pos = 0 THEN <<>>
    ELSE <<[n \in 1..ngroups |-> group(m, n, s)]>>
         \o FindallMore(prog, ngroups, s, fl,
                        SearchFrom(prog, s, fl, IF m.pos > m.start THEN m.pos ELSE m.start + 1))

re_findall(prog, ngroups, s, fl) == FindallMore(prog, ngroups, s, fl, SearchFrom(prog, s, fl, 1))

\* re.sub(pattern, '', s, flags) for a pattern that matches no empty string;
\* m is the first match at or after index from.
RECURSIVE SubMore(_, _, _, _, _)
SubMore(prog, s, fl, from, m) ==
    IF m.pos = 0 \/ m.pos = m.start THEN SubSeq(s, from, Len(s))
    ELSE SubSeq(s, from, m.start - 1) \o SubMore(prog, s, fl, m.pos, SearchFrom(prog, s, fl, m.pos))

re_sub(prog, s, fl) == SubMore(prog, s, fl, 1, SearchFrom(prog, s, fl, 1))

(***************************************************************************)
(* Python values.  A value is a record of its type and its text: a str by  *)
(* its characters, a float by its shortest decimal form ("3.5", "0.0",     *)
(* "inf"), an int by its digits.  float() and int() are exact here for     *)
(* numerals of at most 15 significant digits and for the overflow to inf;  *)
(* the texts of this model hold no other numeral.                          *)
(***************************************************************************)
PyStr(s) == [ty |-> "str", v |-> s]

PyFloat(s) == [ty |-> "float", v |-> s]

PyInt(s) == [ty |-> "int", v |-> s]

PyNone == [ty |-> "NoneType", v |-> ""]

\* The result of evaluating an expression: a value, or an exception raised.
Returns(val) == [exc |-> "", val |-> val]

Raises(exc) == [exc |-> exc, val |-> PyNone]

DigitChars == "0123456789"

DigitVal(c) == (CHOOSE i \in 1..Len(DigitChars) : Ch(DigitChars, i) = c) - 1

StripLeadingZeros(d) ==
    LET nz == {i \in 1..Len(d) : Ch(d, i) # "0"}
    IN  IF nz = {} THEN "" ELSE SubSeq(d, Min(nz), Len(d))

StripTrailingZeros(d) ==
    LET nz == {i \in 1..Len(d) : Ch(d, i) # "0"}
    IN  IF nz = {} THEN "" ELSE SubSeq(d, 1, Max(nz))

\* 2^1024 - 2^970: the least decimal integer that float() rounds to inf
\* (halfway between the largest double and 2^1024, ties to even).
FloatOverflowAt ==
    "179769313486231580793728971405303415079934132710037826936173"
    \o "778980444968292764750946649017977587207096330286416692887910"
    \o "946555547851940402630657488671505820681908902000708383676273"
    \o "854845817711531764475730270069855571366959622842914819860834"
    \o "936475292719074168444365510704342711559699508093042880177904"
    \o "174497792"

\* a >= b for digit strings without leading zeros
DecGE(a, b) ==
    IF Len(a) # Len(b) THEN Len(a) > Len(b)
    ELSE LET diff == {i \in 1..Len(a) : Ch(a, i) # Ch(b, i)}
         IN  diff = {} \/ DigitVal(Ch(a, Min(diff))) > DigitVal(Ch(b, Min(diff)))

\* The double of the numeral with integer digits ip and fraction digits fp,
\* printed as Python prints it (exact for numerals of up to 15 significant
\* digits and for those that overflow to inf).
FloatOfDigits(ip, fp) ==
    IF DecGE(ip, FloatOverflowAt) THEN PyFloat("inf")
    ELSE PyFloat((IF ip = "" THEN "0" ELSE ip) \o "." \o (IF fp = "" THEN "0" ELSE fp))

\* The numeral split at its first dot (s itself and "" when it has none).
FloatOfParts(s, ip0, fp0) ==
    IF \/ \E i \in 1..Len(s) : Ch(s, i) \notin Digit \cup {"."}
       \/ PyFind(fp0, ".", 1) # 0
       \/ Len(ip0) + Len(fp0) = 0
    THEN Raises("ValueError")
    ELSE Returns(FloatOfDigits(StripLeadingZeros(ip0), StripTrailingZeros(fp0)))

FloatSplit(s, dot) ==
    IF dot = 0 THEN FloatOfParts(s, s, "")
    ELSE FloatOfParts(s, SubSeq(s, 1, dot - 1), SubSeq(s, dot + 1, Len(s)))

FloatOfStripped(s) == FloatSplit(s, PyFind(s, ".", 1))

\* float(s) for s made of digits and dots (what [\d.]+ and \d+ capture):
\* ValueError unless s is digits with at most one dot and at least one digit.
float(s) == FloatOfStripped(PyStrip(s))

\* int(x) for a float x >= 0: truncation; OverflowError for inf.
int(x) ==
    IF x.v = "inf" THEN Raises("OverflowError")
    ELSE Returns(PyInt(SubSeq(x.v, 1, PyFind(x.v, ".", 1) - 1)))

\* cast_func(s) for the two cast functions the rules use
cast_func(name, s) == IF name = "float" THEN float(s) ELSE Returns(PyStr(s))

(***************************************************************************)
(* The patterns of extract_invoice_data                                    *)
(***************************************************************************)
IGNORECASE_DOTALL == Flags(TRUE, TRUE, FALSE)

IGNORECASE == Flags(TRUE, FALSE, FALSE)

MULTILINE == Flags(FALSE, FALSE, TRUE)

\* r'No:\s*(\d+)'
PatInvoiceNo == <<Lit("No:"), Star(ClassS)>> \o Group(1, <<Plus(ClassD)>>)

\* r'Customer:\s*(.+?)(?=\n(?:Date|TAX NUMBER|Al-Muqabalein|No|$))'
PatCustomer ==
    <<Lit("Customer:"), Star(ClassS)>> \o Group(1, <<LazyPlus(Dot)>>)
    \o <<LookAhead(<<Lit("\n"),
                     Alt(<< <<Lit("Date")>>, <<Lit("TAX NUMBER")>>, <<Lit("Al-Muqabalein")>>,
                            <<Lit("No")>>, <<Eol>> >>)>>)>>

\* r'Date:\s*(\d{2}/\d{2}/\d{4})'
PatDate ==
    <<Lit("Date:"), Star(ClassS)>>
    \o Group(1, <<Rep(ClassD, 2, 2, TRUE), Lit("/"), Rep(ClassD, 2, 2, TRUE), Lit("/"),
                  Rep(ClassD, 4, 4, TRUE)>>)

\* r'TAX NUMBER:\s*(\d+)'
PatTaxNumber == <<Lit("TAX NUMBER:"), Star(ClassS)>> \o Group(1, <<Plus(ClassD)>>)

\* r'(BREAD BASKET.*COMPANY.*)'
PatCompanyName == Group(1, <<Lit("BREAD BASKET"), Star(Dot), Lit("COMPANY"), Star(Dot)>>)

\* r'BREAD BASKET.*?COMPANY.*?\n(.+?)(?=\n(?:Sales Invoice No|No|Item No|QTY|No\s*Item))'
PatCompanyContact ==
    <<Lit("BREAD BASKET"), LazyStar(Dot), Lit("COMPANY"), LazyStar(Dot), Lit("\n")>>
    \o Group(1, <<LazyPlus(Dot)>>)
    \o <<LookAhead(<<Lit("\n"),
                     Alt(<< <<Lit("Sales Invoice No")>>, <<Lit("No")>>, <<Lit("Item No")>>,
                            <<Lit("QTY")>>, <<Lit("No"), Star(ClassS), Lit("Item")>> >>)>>)>>

\* r'WO \\ |AlMugabalein, Arman\. Jo a|ad a|infobreadbasteteo con'
PatContactNoise ==
    <<Alt(<< <<Lit("WO \\ ")>>, <<Lit("AlMugabalein, Arman. Jo a")>>, <<Lit("ad a")>>,
             <<Lit("infobreadbasteteo con")>> >>)>>

\* r'^\s*(\d+)\s+(.+?)\s+([\d.]+)\s+([A-Za-z]+)\s+([\d.]+)\s+([\d.]+)$'
PatItemRow ==
    <<Bol, Star(ClassS)>> \o Group(1, <<Plus(ClassD)>>)
    \o <<Plus(ClassS)>> \o Group(2, <<LazyPlus(Dot)>>)
    \o <<Plus(ClassS)>> \o Group(3, <<Plus(ClassNum)>>)
    \o <<Plus(ClassS)>> \o Group(4, <<Plus(ClassAlpha)>>)
    \o <<Plus(ClassS)>> \o Group(5, <<Plus(ClassNum)>>)
    \o <<Plus(ClassS)>> \o Group(6, <<Plus(ClassNum)>>)
    \o <<Eol>>

\* r'(?:Total|Tota|otal)\s*~?\s*([\d.]+)'
PatTotal ==
    <<Alt(<< <<Lit("Total")>>, <<Lit("Tota")>>, <<Lit("otal")>> >>),
      Star(ClassS), Opt(Lit("~")), Star(ClassS)>>
    \o Group(1, <<Plus(ClassNum)>>)

\* r'Discount\s*([\d.]+)'
PatDiscount == <<Lit("Discount"), Star(ClassS)>> \o Group(1, <<Plus(ClassNum)>>)

\* r'(?:Net|Nets?|Sone)\s*\|\s*([\d.]+)'
PatNet ==
    <<Alt(<< <<Lit("Net")>>, <<Lit("Net"), Opt(Lit("s"))>>, <<Lit("Sone")>> >>),
      Star(ClassS), Lit("|"), Star(ClassS)>>
    \o Group(1, <<Plus(ClassNum)>>)

\* r'Sales tax\s*\|\s*([\d.]+)'
PatSalesTax == <<Lit("Sales tax"), Star(ClassS), Lit("|"), Star(ClassS)>> \o Group(1, <<Plus(ClassNum)>>)

\* r'Note\s*(\d+)'
PatNote == <<Lit("Note"), Star(ClassS)>> \o Group(1, <<Plus(ClassD)>>)

(***************************************************************************)
(* extract_invoice_data, step 4: the field rules and the item rows         *)
(***************************************************************************)
\* The helper's outcome: the value it returns, or the exception that leaves
\* it.  None.strip() on a group that took no part is an AttributeError.

\* A variant of the helper without its try: the cast's exception leaves it.
CastUnguarded(got, default) == got

\* try: return cast_func(match.group(1).strip())
\* except (ValueError, IndexError): pass
TryCast(got, default) == IF got.exc \in {"ValueError", "IndexError"} THEN Returns(default) ELSE got

SafeSearchMatch(match, text, default, cast) ==
    IF match.pos = 0 THEN Returns(default)
    ELSE IF GroupIsNone(match, 1) THEN Raises("AttributeError")
    ELSE TryCast(cast_func(cast, PyStrip(group(match, 1, text))), default)

safe_search(pattern, text, default, cast, flags) ==
    SafeSearchMatch(re_search(pattern, text, flags), text, default, cast)

NA == PyStr("N/A")

Zero == PyFloat("0.0")

\* The nine calls of safe_search, by the key each result is stored under.
RuleKeys ==
    <<"Sales_Invoice_No", "Customer_Name", "Date", "TAX_NUMBER", "Total_Summary",
      "Discount", "Net_Amount", "Sales_Tax", "Note">>

Rule(key) ==
    CASE key = "Sales_Invoice_No" -> [pattern |-> PatInvoiceNo, default |-> NA, cast |-> "str"]
      [] key = "Customer_Name" -> [pattern |-> PatCustomer, default |-> NA, cast |-> "str"]
      [] key = "Date" -> [pattern |-> PatDate, default |-> NA, cast |-> "str"]
      [] key = "TAX_NUMBER" -> [pattern |-> PatTaxNumber, default |-> NA, cast |-> "str"]
      [] key = "Total_Summary" -> [pattern |-> PatTotal, default |-> Zero, cast |-> "float"]
      [] key = "Discount" -> [pattern |-> PatDiscount, default |-> Zero, cast |-> "float"]
      [] key = "Net_Amount" -> [pattern |-> PatNet, default |-> Zero, cast |-> "float"]
      [] key = "Sales_Tax" -> [pattern |-> PatSalesTax, default |-> Zero, cast |-> "float"]
      [] key = "Note" -> [pattern |-> PatNote, default |-> NA, cast |-> "str"]

SafeSearchRule(rule, raw_text) ==
    safe_search(rule.pattern, raw_text, rule.default, rule.cast, IGNORECASE_DOTALL)

ApplyRule(key, raw_text) == SafeSearchRule(Rule(key), raw_text)

\* The OCR artifact removed from the customer name.
CustomerArtifact == "s) Cle al Â¢ 6 8 ae"

CleanCustomerName(name) == PyStr(PyStrip(PyReplace(name.v, CustomerArtifact, "")))

CleanCompanyName(found) ==
    PyStr(PyStrip(PyReplace(PyReplace(PyReplace(found, "% whistle", ""), "=", ""), "\"", "")))

CompanyNameOf(company_name_match, raw_text) ==
    IF company_name_match.pos # 0
    THEN CleanCompanyName(PyStrip(group(company_name_match, 1, raw_text)))
    ELSE CleanCompanyName("N/A")

CompanyName(raw_text) == CompanyNameOf(re_search(PatCompanyName, raw_text, IGNORECASE), raw_text)

\* extracted_data[key] = value
Put(d, key, value) == [k \in DOMAIN d \cup {key} |-> IF k = key THEN value ELSE d[k]]

EmptyDict == [k \in {} |-> PyNone]

CompanyAddressContact(company_contact_block_match, data, raw_text) ==
    IF company_contact_block_match.pos # 0
    THEN Put(data, "Company_Address_Contact",
             PyStr(PyStrip(re_sub(PatContactNoise,
                                  PyStrip(PyReplace(group(company_contact_block_match, 1, raw_text), "\n", " ")),
                                  IGNORECASE))))
    ELSE Put(data, "Company_Address_Contact", NA)

SetCompanyAddressContact(data, raw_text) ==
    CompanyAddressContact(re_search(PatCompanyContact, raw_text, IGNORECASE_DOTALL), data, raw_text)

\* The first exception among outcomes evaluated in this order ("" if none).
FirstExc(outcomes) ==
    LET raised == {i \in 1..Len(outcomes) : outcomes[i].exc # ""}
    IN  IF raised = {} THEN "" ELSE outcomes[Min(raised)].exc

\* int(float(...)): int is not reached when float raises
IntOf(f) == IF f.exc = "" THEN int(f.val) ELSE f

ItemOf(row, exc, qty, price, total) ==
    IF exc # "" THEN Raises(exc)
    ELSE Returns([Item_No |-> PyStr(PyStrip(row[1])),
                  Item_Name |-> PyStr(PyStrip(PyReplace(row[2], "\"", ""))),
                  Qty |-> qty.val,
                  Unit |-> PyStr(PyStrip(row[4])),
                  Price |-> price.val,
                  Total_Price |-> total.val])

ItemOfNumbers(row, qty, price, total) == ItemOf(row, FirstExc(<<qty, price, total>>), qty, price, total)

\* The dict built from one tuple of re.findall, or the exception raised
\* while building it.
item_dict(row) ==
    ItemOfNumbers(row, IntOf(float(PyStrip(row[3]))), float(PyStrip(row[5])), float(PyStrip(row[6])))

\* A variant of the except clause that names IndexError only.
SkippedOnIndexErrorOnly(exc) == exc = "IndexError"

\* The except clause of the loop over item_rows: these exceptions skip the row.
RowSkipped(exc) == exc \in {"ValueError", "IndexError"}

\* The list after the loop's body ran on one row; an exception the except
\* clause does not name leaves the loop.
AfterRow(items, r) ==
    IF r.exc = "" THEN Returns(Append(items, r.val))
    ELSE IF RowSkipped(r.exc) THEN Returns(items)
    ELSE Raises(r.exc)

RECURSIVE ItemsLoop(_, _)
ItemsLoop(item_rows, acc) ==
    IF item_rows = <<>> \/ acc.exc # "" THEN acc
    ELSE ItemsLoop(Tail(item_rows), AfterRow(acc.val, item_dict(Head(item_rows))))

\* extracted_data['Items'], or the exception that leaves the loop
Items(raw_text) == ItemsLoop(re_findall(PatItemRow, MaxGroups, raw_text, MULTILINE), Returns(<<>>))

RECURSIVE PutRules(_, _, _)
PutRules(data, keys, raw_text) ==
    IF keys = <<>> THEN data
    ELSE PutRules(Put(data, Head(keys), ApplyRule(Head(keys), raw_text).val), Tail(keys), raw_text)

HeaderKeys == SubSeq(RuleKeys, 1, 4)

SummaryKeys == SubSeq(RuleKeys, 5, 9)

\* Lines 135-144
PutHeader(raw_text) == PutRules(EmptyDict, HeaderKeys, raw_text)

\* Line 140
PutCustomerName(data) == Put(data, "Customer_Name", CleanCustomerName(data["Customer_Name"]))

\* A variant that never stores the company name.
ForgetCompanyName(data, raw_text) == data

\* Lines 147-150
PutCompanyName(data, raw_text) == Put(data, "Company_Name", CompanyName(raw_text))

\* Lines 166-186
PutItems(data, items) == Put(data, "Items", items.val)

\* Lines 189-195
PutSummary(data, raw_text) == PutRules(data, SummaryKeys, raw_text)

Extracted(exc, data) == IF exc # "" THEN [exc |-> exc, data |-> EmptyDict] ELSE [exc |-> "", data |-> data]

ExtractWithItems(raw_text, items) ==
    Extracted(FirstExc([i \in 1..4 |-> ApplyRule(HeaderKeys[i], raw_text)] \o <<items>>
                       \o [i \in 1..5 |-> ApplyRule(SummaryKeys[i], raw_text)]),
              PutSummary(PutItems(SetCompanyAddressContact(PutCompanyName(PutCustomerName(PutHeader(raw_text)),
                                                                          raw_text),
                                                           raw_text),
                                  items),
                         raw_text))

\* Lines 122-195: the dict extracted_data, or the exception raised on the way.
extract_fields(raw_text) == ExtractWithItems(raw_text, Items(raw_text))

\* dict.get(key, default)
Get(d, key, default) == IF key \in DOMAIN d THEN d[key] ELSE default

\* The row for Sheet1 (lines 202-214)
sheet1_row_values(extracted_data) ==
    <<Get(extracted_data, "Sales_Invoice_No", PyStr("")),
      Get(extracted_data, "Customer_Name", PyStr("")),
      Get(extracted_data, "Date", PyStr("")),
      Get(extracted_data, "TAX_NUMBER", PyStr("")),
      Get(extracted_data, "Company_Name", PyStr("")),
      Get(extracted_data, "Company_Address_Contact", PyStr("")),
      Get(extracted_data, "Total_Summary", Zero),
      Get(extracted_data, "Discount", Zero),
      Get(extracted_data, "Net_Amount", Zero),
      Get(extracted_data, "Sales_Tax", Zero),
      Get(extracted_data, "Note", PyStr(""))>>

\* The row for Sheet2 of one item (lines 226-234)
sheet2_row_values(extracted_data, item) ==
    <<Get(extracted_data, "Sales_Invoice_No", PyStr("")),
      item.Item_No, item.Item_Name, item.Qty, item.Unit, item.Price, item.Total_Price>>

\* json.dumps(..., allow_nan=False) of the response raises ValueError on inf.
JsonOutOfRange(extracted_data) ==
    \/ \E k \in {"Total_Summary", "Discount", "Net_Amount", "Sales_Tax"} : extracted_data[k].v = "inf"
    \/ \E i \in 1..Len(extracted_data["Items"]) :
          extracted_data["Items"][i].Price.v = "inf" \/ extracted_data["Items"][i].Total_Price.v = "inf"

(***************************************************************************)
(* Uploads and the OCR engine.  An upload is modelled by what Pillow and   *)
(* Tesseract make of its bytes: whether it decodes, the array's number of  *)
(* dimensions (3 for colour), and the text Tesseract recognizes in it,     *)
(* which is a function of the bytes.                                       *)
(***************************************************************************)
Upload(text) == [valid |-> TRUE, ndim |-> 3, text |-> text]

Corrupt == [valid |-> FALSE, ndim |-> 0, text |-> ""]

NoImage == [valid |-> FALSE, ndim |-> 0, text |-> ""]

\* cv2.cvtColor(img_cv, cv2.COLOR_RGB2GRAY) when len(img_cv.shape) == 3
preprocess_image_for_ocr(pil_image) ==
    IF pil_image.ndim = 3 THEN [pil_image EXCEPT !.ndim = 2] ELSE pil_image

\* pytesseract.image_to_string(processed_pil_image, lang='eng', config='--psm 6')
image_to_string(processed_pil_image) == processed_pil_image.text

HugeLen == 310

RECURSIVE Repeat(_, _)
Repeat(s, n) ==
    IF n = 0 THEN ""
    ELSE IF n % 2 = 1 THEN s \o Repeat(s, n - 1)
    ELSE LET half == Repeat(s, n \div 2) IN half \o half

\* A numeral too large for a double.
HugeNumeral == Repeat("9", HugeLen)

ScenarioText == "Invoice No: 4021\nCustomer: Acme Co\nDate: 01/02/2024\n...Total: 55.00"

InvoiceText ==
    "BREAD BASKET = COMPANY\nAmman ad a\nNo: 7\nCustomer: Acme Co\nDate: 01/02/2024\n"
    \o "1 Cheese Burger 2 pcs 3.50 7.00\n2 Cola 1.2.3 L 1 1\n3 Bun 2.5 kg 1. 2.5\n"
    \o "Total 9.50\nNet | 9.50"

OrphanText == "Customer: Acme Co\n1 Cheese Burger 2 pcs 3.50 7.00\nTotal 7.00"

HugeQtyText == "No: 8\n1 Bun " \o HugeNumeral \o " pcs 1 1"

HugeTotalText == "No: 9\nTotal " \o HugeNumeral

\* The recognized texts of the uploads of the concurrent specification.
Texts == {ScenarioText, InvoiceText, OrphanText, HugeQtyText, HugeTotalText, ""}

Uploads == {Upload(t) : t \in Texts} \cup {Corrupt}

NumReq == 2

Req == 1..NumReq

(***************************************************************************)
(* State                                                                   *)
(***************************************************************************)
VARIABLES
    pc,                   \* where each request's handler stands
    image_bytes,          \* the upload each request read
    processed_pil_image,  \* the decoded, pre-processed image
    raw_text,             \* the recognized text
    extracted_data,       \* the handler's local dict
    next_item,            \* the index in Items of the next Sheet2 append
    response,             \* what the request returned
    sink,                 \* the spreadsheet: the rows of Sheet1 and Sheet2
    parsed,               \* extract_fields tabulated over the texts in use
    probe,                \* the input of a function applied on its own
    result                \* and its outcome

vars ==
    <<pc, image_bytes, processed_pil_image, raw_text, extracted_data, next_item,
      response, sink, parsed, probe, result>>

handler == <<pc, image_bytes, processed_pil_image, raw_text, extracted_data, next_item, response>>

NoResponse == [status_code |-> 0, detail |-> "", data |-> EmptyDict]

\* JSONResponse(content={"status": "success", "data": extracted_data, ...})
Success(data) == [status_code |-> 200, detail |-> "", data |-> data]

\* The handler's except clause: HTTPException(status_code=500, detail=...{e})
Failure(exc) == [status_code |-> 500, detail |-> exc, data |-> EmptyDict]

RECURSIVE Tabulate(_)
Tabulate(texts) ==
    IF texts = {} THEN EmptyDict
    ELSE LET t == CHOOSE x \in texts : TRUE
         IN  (t :> extract_fields(t)) @@ Tabulate(texts \ {t})

NotRun == [exc |-> "", val |-> PyNone, done |-> FALSE]

InitHandlers(texts) ==
    /\ pc = [r \in Req |-> "idle"]
    /\ image_bytes = [r \in Req |-> NoImage]
    /\ processed_pil_image = [r \in Req |-> NoImage]
    /\ raw_text = [r \in Req |-> ""]
    /\ extracted_data = [r \in Req |-> EmptyDict]
    /\ next_item = [r \in Req |-> 1]
    /\ response = [r \in Req |-> NoResponse]
    /\ sink = [Sheet1 |-> <<>>, Sheet2 |-> <<>>]
    /\ parsed = Tabulate(texts)

Init ==
    /\ InitHandlers(Texts)
    /\ probe = <<>>
    /\ result = NotRun

(***************************************************************************)
(* append_to_sheet: one row appended to a tab.  The row records which      *)
(* request appended it (by), which the spreadsheet does not store.         *)
(***************************************************************************)
\* A variant of the sink that drops a row it already holds.
AppendUnlessHeld(rows, r, values) ==
    IF \E i \in 1..Len(rows) : rows[i].values = values THEN rows
    ELSE Append(rows, [by |-> r, values |-> values])

append_to_sheet(rows, r, values) == Append(rows, [by |-> r, values |-> values])

(***************************************************************************)
(* The handler extract_invoice_data, one action per step.  A request is    *)
(* one run of the handler; requests served by several workers interleave   *)
(* step by step, and so do their appends to the one spreadsheet.  Within    *)
(* one event loop the handler yields only at image.read(), which is one of *)
(* the interleavings.                                                      *)
(***************************************************************************)
Finish(r, resp) ==
    /\ pc' = [pc EXCEPT ![r] = "done"]
    /\ response' = [response EXCEPT ![r] = resp]

\* image_bytes = await image.read()
Read(r, upload) ==
    /\ pc[r] = "idle"
    /\ image_bytes' = [image_bytes EXCEPT ![r] = upload]
    /\ pc' = [pc EXCEPT ![r] = "read"]
    /\ UNCHANGED <<processed_pil_image, raw_text, extracted_data, next_item, response, sink,
                   parsed, probe, result>>

\* Image.open and preprocess_image_for_ocr
Open(r) ==
    /\ pc[r] = "read"
    /\ image_bytes[r].valid
    /\ processed_pil_image' = [processed_pil_image EXCEPT ![r] = preprocess_image_for_ocr(image_bytes[r])]
    /\ pc' = [pc EXCEPT ![r] = "ocr"]
    /\ UNCHANGED <<image_bytes, raw_text, extracted_data, next_item, response, sink,
                   parsed, probe, result>>

\* Image.open raises on bytes that are no image
OpenFails(r) ==
    /\ pc[r] = "read"
    /\ ~image_bytes[r].valid
    /\ Finish(r, Failure("UnidentifiedImageError"))
    /\ UNCHANGED <<image_bytes, processed_pil_image, raw_text, extracted_data, next_item, sink,
                   parsed, probe, result>>

Recognize(r) ==
    /\ pc[r] = "ocr"
    /\ raw_text' = [raw_text EXCEPT ![r] = image_to_string(processed_pil_image[r])]
    /\ pc' = [pc EXCEPT ![r] = "parse"]
    /\ UNCHANGED <<image_bytes, processed_pil_image, extracted_data, next_item, response, sink,
                   parsed, probe, result>>

\* A variant of step 4 whose dict is one module-level object that every
\* request fills and reads.
ExtractShared(r) ==
    /\ pc[r] = "parse"
    /\ parsed[raw_text[r]].exc = ""
    /\ extracted_data' = [q \in Req |-> parsed[raw_text[r]].data]
    /\ next_item' = [next_item EXCEPT ![r] = 1]
    /\ pc' = [pc EXCEPT ![r] = "sheet1"]
    /\ UNCHANGED <<image_bytes, processed_pil_image, raw_text, response, sink, parsed, probe, result>>

\* Step 4, lines 122-214
Extract(r) ==
    /\ pc[r] = "parse"
    /\ parsed[raw_text[r]].exc = ""
    /\ extracted_data' = [extracted_data EXCEPT ![r] = parsed[raw_text[r]].data]
    /\ next_item' = [next_item EXCEPT ![r] = 1]
    /\ pc' = [pc EXCEPT ![r] = "sheet1"]
    /\ UNCHANGED <<image_bytes, processed_pil_image, raw_text, response, sink, parsed, probe, result>>

\* An exception leaves step 4 and reaches the handler's except clause
ExtractFails(r) ==
    /\ pc[r] = "parse"
    /\ parsed[raw_text[r]].exc # ""
    /\ Finish(r, Failure(parsed[raw_text[r]].exc))
    /\ UNCHANGED <<image_bytes, processed_pil_image, raw_text, extracted_data, next_item, sink,
                   parsed, probe, result>>

\* A variant that appends the header row whatever the invoice number.
HeaderAlways(data) == TRUE

\* if extracted_data['Sales_Invoice_No'] != 'N/A'
HeaderWanted(data) == data["Sales_Invoice_No"] # NA

AppendSheet1(r) ==
    /\ pc[r] = "sheet1"
    /\ HeaderWanted(extracted_data[r])
    /\ sink' = [sink EXCEPT !.Sheet1 = append_to_sheet(@, r, sheet1_row_values(extracted_data[r]))]
    /\ pc' = [pc EXCEPT ![r] = "sheet2"]
    /\ UNCHANGED <<image_bytes, processed_pil_image, raw_text, extracted_data, next_item, response,
                   parsed, probe, result>>

SkipSheet1(r) ==
    /\ pc[r] = "sheet1"
    /\ ~HeaderWanted(extracted_data[r])
    /\ pc' = [pc EXCEPT ![r] = "sheet2"]
    /\ UNCHANGED <<image_bytes, processed_pil_image, raw_text, extracted_data, next_item, response,
                   sink, parsed, probe, result>>

\* for item in extracted_data['Items']
ItemsLeft(r) == next_item[r] <= Len(extracted_data[r]["Items"])

AppendSheet2(r) ==
    /\ pc[r] = "sheet2"
    /\ ItemsLeft(r)
    /\ sink' = [sink EXCEPT !.Sheet2 =
                   append_to_sheet(@, r, sheet2_row_values(extracted_data[r],
                                                           extracted_data[r]["Items"][next_item[r]]))]
    /\ next_item' = [next_item EXCEPT ![r] = @ + 1]
    /\ UNCHANGED <<pc, image_bytes, processed_pil_image, raw_text, extracted_data, response,
                   parsed, probe, result>>

\* A variant that swallows the failure of an append and goes on to the next row.
AppendFailureIgnored(r) ==
    /\ \/ /\ pc[r] = "sheet1" /\ HeaderWanted(extracted_data[r])
          /\ pc' = [pc EXCEPT ![r] = "sheet2"]
          /\ UNCHANGED next_item
       \/ /\ pc[r] = "sheet2" /\ ItemsLeft(r)
          /\ next_item' = [next_item EXCEPT ![r] = @ + 1]
          /\ UNCHANGED pc
    /\ UNCHANGED <<image_bytes, processed_pil_image, raw_text, extracted_data, response, sink,
                   parsed, probe, result>>

\* get_sheets_service or the append request fails: append_to_sheet raises
\* HTTPException(500), nothing is appended, the handler's except clause ends
\* the request.
AppendFails(r) ==
    /\ \/ pc[r] = "sheet1" /\ HeaderWanted(extracted_data[r])
       \/ pc[r] = "sheet2" /\ ItemsLeft(r)
    /\ Finish(r, Failure("HTTPException"))
    /\ UNCHANGED <<image_bytes, processed_pil_image, raw_text, extracted_data, next_item, sink,
                   parsed, probe, result>>

Respond(r) ==
    /\ pc[r] = "sheet2"
    /\ ~ItemsLeft(r)
    /\ ~JsonOutOfRange(extracted_data[r])
    /\ Finish(r, Success(extracted_data[r]))
    /\ UNCHANGED <<image_bytes, processed_pil_image, raw_text, extracted_data, next_item, sink,
                   parsed, probe, result>>

\* JSONResponse cannot render inf: ValueError, caught by the except clause
RespondFails(r) ==
    /\ pc[r] = "sheet2"
    /\ ~ItemsLeft(r)
    /\ JsonOutOfRange(extracted_data[r])
    /\ Finish(r, Failure("ValueError"))
    /\ UNCHANGED <<image_bytes, processed_pil_image, raw_text, extracted_data, next_item, sink,
                   parsed, probe, result>>

Step(r) ==
    \/ Open(r)
    \/ OpenFails(r)
    \/ Recognize(r)
    \/ Extract(r)
    \/ ExtractFails(r)
    \/ AppendSheet1(r)
    \/ SkipSheet1(r)
    \/ AppendSheet2(r)
    \/ AppendFails(r)
    \/ Respond(r)
    \/ RespondFails(r)

Next == \E r \in Req : (\E upload \in Uploads : Read(r, upload)) \/ Step(r)

\* Concurrent requests, their steps and appends interleaved in any order.
Spec == Init /\ [][Next]_vars

(***************************************************************************)
(* The extraction functions on their own: Init draws the input (probe),    *)
(* one action applies the function and records its outcome (result).       *)
(***************************************************************************)
Ran(outcome) == [exc |-> outcome.exc, val |-> outcome.val, done |-> TRUE]

InitProbe(probes) ==
    /\ InitHandlers({})
    /\ probe \in probes
    /\ result = NotRun

RECURSIVE Join(_, _)
Join(parts, sep) ==
    IF parts = <<>> THEN ""
    ELSE IF Len(parts) = 1 THEN parts[1]
    ELSE parts[1] \o sep \o Join(Tail(parts), sep)

\* A field rule and a recognized text: a label, a separator, a value.
RuleProbes ==
    LET Labels == {"No:", "Customer:", "Date:", "TAX NUMBER:", "Total", "Total:", "Tota",
                   "Discount", "Net", "Sone", "Sales tax", "Note", "Invoice"}
        Separators == {"", " ", " | ", " ~ "}
        FieldValues == {"", "55.00", "1.2.3", ".", "4021", "01/02/2024", "Acme Co\n", HugeNumeral}
        RuleTexts == {l \o s \o v : l \in Labels, s \in Separators, v \in FieldValues}
    IN  {[key |-> RuleKeys[i], text |-> t] : i \in 1..Len(RuleKeys), t \in RuleTexts}

\* safe_search(pattern, raw_text, ...) of one of the nine field rules
SafeSearch ==
    /\ ~result.done
    /\ result' = Ran(ApplyRule(probe.key, probe.text))
    /\ UNCHANGED <<handler, sink, parsed, probe>>

\* One field rule applied to one text.
InitRules == InitProbe(RuleProbes)

SpecRules == InitRules /\ [][SafeSearch]_vars

\* Item rows: six columns, separated by blanks, on one line.
Rows ==
    LET ItemNumbers == {"1"}
        ItemNames == {"Cheese Burger", "Bros\"Buns", "Cola 2"}
        Quantities == {"2", "2.5", "100.000", "007", "1.2.3", ".", HugeNumeral}
        UnitTokens == {"pcs"}
        Amounts == {"3.50", "7.00", "1.", ".5", "1.2.3", HugeNumeral}
        ColumnGaps == {" ", "  "}
    IN  {[cols |-> <<n, name, q, u, price, total>>, gap |-> g] :
            n \in ItemNumbers, name \in ItemNames, q \in Quantities, u \in UnitTokens,
            price \in Amounts, total \in Amounts, g \in ColumnGaps}

\* Lines 166-186 on the text of one row
Reconcile ==
    /\ ~result.done
    /\ result' = Ran(Items(Join(probe.cols, probe.gap)))
    /\ UNCHANGED <<handler, sink, parsed, probe>>

\* The line-item reconciler applied to one row.
InitRows == InitProbe(Rows)

SpecRows == InitRows /\ [][Reconcile]_vars

\* Page texts: up to MaxLines lines of the pool.
MaxLines == 2

LinePool ==
    <<"No: 7", "Customer: Acme Co", "Date: 01/02/2024", "TAX NUMBER: 123",
      "BREAD BASKET = COMPANY", "1 Cheese Burger 2 pcs 3.50 7.00", "2 Cola 1.2.3 L 1 1",
      "Total 9.50", "Sales tax | 1.2.3", "Note 5", "Total " \o HugeNumeral>>

RECURSIVE Pages(_)
Pages(n) ==
    IF n = 0 THEN {<<>>}
    ELSE Pages(n - 1) \cup {Append(page, i) : page \in Pages(n - 1), i \in 1..Len(LinePool)}

PageTexts == {Join([i \in 1..Len(page) |-> LinePool[page[i]]], "\n") : page \in Pages(MaxLines)}

Outcome(extracted) == [exc |-> extracted.exc, val |-> extracted.data]

\* Step 4 (lines 122-195) on one page text
Structure ==
    /\ ~result.done
    /\ result' = Ran(Outcome(extract_fields(probe)))
    /\ UNCHANGED <<handler, sink, parsed, probe>>

\* The record built from one page text.
InitTexts == InitProbe(PageTexts)

SpecTexts == InitTexts /\ [][Structure]_vars

(***************************************************************************)
(* Properties                                                              *)
(***************************************************************************)
\* A numeral: digits with at most one dot and at least one digit.
Numeral(s) ==
    /\ \A i \in 1..Len(s) : Ch(s, i) \in Digit \cup {"."}
    /\ \E i \in 1..Len(s) : Ch(s, i) \in Digit
    /\ Cardinality({i \in 1..Len(s) : Ch(s, i) = "."}) <= 1

\* The double each numeral of the probes denotes, as Python prints it.
Denotes(numeral) ==
    CASE numeral = "2" -> "2.0"
      [] numeral = "2.5" -> "2.5"
      [] numeral = "100.000" -> "100.0"
      [] numeral = "007" -> "7.0"
      [] numeral = "3.50" -> "3.5"
      [] numeral = "7.00" -> "7.0"
      [] numeral = "1." -> "1.0"
      [] numeral = ".5" -> "0.5"
      [] numeral = "55.00" -> "55.0"
      [] numeral = "4021" -> "4021.0"
      [] numeral = "01" -> "1.0"
      [] numeral = HugeNumeral -> "inf"
      [] OTHER -> "unknown"

\* The digits before the dot.
WholePart(printed) == SubSeq(printed, 1, PyFind(printed, ".", 1) - 1)

RecordKeys ==
    {"Sales_Invoice_No", "Customer_Name", "Date", "TAX_NUMBER", "Company_Name",
     "Company_Address_Contact", "Items", "Total_Summary", "Discount", "Net_Amount",
     "Sales_Tax", "Note"}

StringFields ==
    {"Sales_Invoice_No", "Customer_Name", "Date", "TAX_NUMBER", "Company_Name",
     "Company_Address_Contact", "Note"}

NumberFields == {"Total_Summary", "Discount", "Net_Amount", "Sales_Tax"}

ItemKeys == {"Item_No", "Item_Name", "Qty", "Unit", "Price", "Total_Price"}

\* The fields the specification lists, the raw table grid among them.
ClaimedKeys ==
    {"Sales_Invoice_No", "Customer_Name", "Date", "TAX_NUMBER", "Company_Name",
     "Total_Summary", "Discount", "Net_Amount", "Sales_Tax", "Items", "table"}

AllDefaults ==
    [k \in RecordKeys |->
        IF k \in NumberFields THEN Zero ELSE IF k = "Items" THEN <<>> ELSE NA]

\* Step 4 ended without an exception and the response can be rendered.
RecordReturned == result.done /\ result.exc = "" /\ ~JsonOutOfRange(result.val)

\* C1 (as amended): the record of a successful call has exactly the twelve
\* keys the code assigns (the claimed fields, Company_Address_Contact and
\* Note; no table grid), none omitted: the copied string fields are 'N/A' or
\* a piece of the page text, the other string fields are strings, the summary
\* fields are floats, every item has the six item keys, and the record of
\* the empty text holds every default.
C1_RecordHasEveryCodeField ==
    RecordReturned =>
        /\ DOMAIN result.val = RecordKeys
        /\ \A k \in {"Sales_Invoice_No", "Customer_Name", "Date", "TAX_NUMBER", "Note"} :
              result.val[k] = NA \/ PyFind(probe, result.val[k].v, 1) # 0
        /\ \A k \in StringFields : result.val[k].ty = "str"
        /\ \A k \in NumberFields : result.val[k].ty = "float"
        /\ \A i \in 1..Len(result.val["Items"]) : DOMAIN result.val["Items"][i] = ItemKeys
        /\ probe = "" => result.val = AllDefaults

\* C1 witness: the record of the empty text holds every default, and the
\* record of a page with an invoice number holds that number.
C1_Witness ==
    /\ RecordReturned
    /\ probe = "No: 7\n1 Cheese Burger 2 pcs 3.50 7.00"
    /\ result.val["Sales_Invoice_No"] = PyStr("7")
    /\ Len(result.val["Items"]) = 1
    /\ result.val["Company_Name"] = NA

\* C1 (as claimed): the record of a successful call holds every field the
\* specification lists, the raw table grid included.
C1_RecordHasTableGrid == RecordReturned => ClaimedKeys \subseteq DOMAIN result.val

\* C2: a field rule never raises; it returns the rule's default when the
\* pattern has no match and when the trimmed first group of the first match
\* is no numeral for a float rule, and the coercion of that group otherwise.
C2_SafeSearchIsTotal ==
    result.done =>
        LET rule == Rule(probe.key)
            match == re_search(rule.pattern, probe.text, IGNORECASE_DOTALL)
            captured == PyStrip(group(match, 1, probe.text))
        IN  /\ result.exc = ""
            /\ match.pos = 0 => result.val = rule.default
            /\ match.pos # 0 /\ rule.cast = "str" => result.val = PyStr(captured)
            /\ match.pos # 0 /\ rule.cast = "float" /\ ~Numeral(captured) =>
                  result.val = rule.default
            /\ match.pos # 0 /\ rule.cast = "float" /\ Numeral(captured) =>
                  result.val = PyFloat(Denotes(captured))

\* C2 witness: the total rule matched '1.2.3', which float rejects, and
\* returned its default 0.0.
C2_Witness ==
    /\ result.done
    /\ probe = [key |-> "Total_Summary", text |-> "Total 1.2.3"]
    /\ result.exc = ""
    /\ result.val = Zero

\* The item a well-formed row yields.
ItemOfRow(c) ==
    [Item_No |-> PyStr(c[1]),
     Item_Name |-> PyStr(PyReplace(c[2], "\"", "")),
     Qty |-> PyInt(WholePart(Denotes(c[3]))),
     Unit |-> PyStr(c[4]),
     Price |-> PyFloat(Denotes(c[5])),
     Total_Price |-> PyFloat(Denotes(c[6]))]

\* C6 (as amended): a row whose quantity, price and total are numerals yields
\* exactly one item: the name without its double quotes, the quantity
\* truncated to an integer, price and total as floats.  A row with a column
\* that is no numeral ('1.2.3', '.') yields no item, and a quantity too large
\* for a double leaves the loop with OverflowError (C3).
C6_RowYieldsTypedItem ==
    result.done =>
        LET c == probe.cols
        IN  IF ~Numeral(c[3]) THEN result.exc = "" /\ result.val = <<>>
            ELSE IF Denotes(c[3]) = "inf" THEN result.exc = "OverflowError"
            ELSE IF ~(Numeral(c[5]) /\ Numeral(c[6])) THEN result.exc = "" /\ result.val = <<>>
            ELSE result.exc = "" /\ result.val = <<ItemOfRow(c)>>

\* C6 witness: the quantity 2.5 becomes 2, and the quotes leave the name.
C6_Witness ==
    /\ result.done
    /\ probe.cols = <<"1", "Bros\"Buns", "2.5", "pcs", "3.50", "7.00">>
    /\ Len(result.val) = 1
    /\ result.val[1].Qty = PyInt("2")
    /\ result.val[1].Item_Name = PyStr("BrosBuns")
    /\ result.val[1].Price = PyFloat("3.5")

\* C6 (as claimed): every row of the shape yields exactly one item whose
\* name, quantity, price and total are the row's columns, as numbers of the
\* same value.
C6_RowYieldsColumnsAsGiven ==
    result.done =>
        /\ result.exc = ""
        /\ Len(result.val) = 1
        /\ result.val[1].Item_Name.v = probe.cols[2]
        /\ result.val[1].Qty.v \o ".0" = Denotes(probe.cols[3])
        /\ result.val[1].Price.v = Denotes(probe.cols[5])
        /\ result.val[1].Total_Price.v = Denotes(probe.cols[6])

\* The rows of a tab that request r appended, and their values.
RowsBy(rows, r) == SelectSeq(rows, LAMBDA row : row.by = r)

ValuesBy(rows, r) == [i \in 1..Len(RowsBy(rows, r)) |-> RowsBy(rows, r)[i].values]

\* The rows a record calls for: one header row if it has an invoice number,
\* one row per item.
HeaderRows(data) ==
    IF data["Sales_Invoice_No"] # NA
    THEN << <<data["Sales_Invoice_No"], data["Customer_Name"], data["Date"], data["TAX_NUMBER"],
              data["Company_Name"], data["Company_Address_Contact"], data["Total_Summary"],
              data["Discount"], data["Net_Amount"], data["Sales_Tax"], data["Note"]>> >>
    ELSE <<>>

ItemRow(data, item) ==
    <<data["Sales_Invoice_No"], item.Item_No, item.Item_Name, item.Qty, item.Unit, item.Price,
      item.Total_Price>>

ItemRows(data) == [i \in 1..Len(data["Items"]) |-> ItemRow(data, data["Items"][i])]

IsPrefix(s, t) == Len(s) <= Len(t) /\ \A i \in 1..Len(s) : s[i] = t[i]

Succeeded(r) == pc[r] = "done" /\ response[r].status_code = 200

Copies(rows, values) == Cardinality({i \in 1..Len(rows) : rows[i].values = values})

\* C3 (as claimed): a request whose image decodes, and whose appends all
\* succeed, returns a success result with a record, a malformed item row
\* skipped and the other rows kept in their order: no field and no row
\* aborts it.
C3_OnlyDecodeFailureIsFatal ==
    \A r \in Req :
        pc[r] = "done" /\ image_bytes[r].valid /\ response[r].detail # "HTTPException" =>
            /\ response[r].status_code = 200
            /\ raw_text[r] = InvoiceText =>
                  /\ Len(response[r].data["Items"]) = 2
                  /\ response[r].data["Items"][1].Item_Name = PyStr("Cheese Burger")
                  /\ response[r].data["Items"][2].Item_Name = PyStr("Bun")

\* C3 witness: an item row whose quantity is too large for a double ends
\* the request with a 500 error.
C3_Witness ==
    \E r \in Req :
        /\ pc[r] = "done"
        /\ raw_text[r] = HugeQtyText
        /\ response[r] = Failure("OverflowError")

\* C4 (as amended): a request that returns success has appended the header
\* row to Sheet1 once if the record has an invoice number and not at all if
\* it is 'N/A', and one row to Sheet2 for each item, in the order of Items: the
\* number of appends is the number of items, plus one with an invoice number.
C4_AppendsPerSuccess ==
    \A r \in Req :
        Succeeded(r) =>
            /\ ValuesBy(sink.Sheet1, r) = HeaderRows(response[r].data)
            /\ ValuesBy(sink.Sheet2, r) = ItemRows(response[r].data)
            /\ Len(RowsBy(sink.Sheet1, r)) + Len(RowsBy(sink.Sheet2, r))
                  = Len(response[r].data["Items"])
                    + (IF response[r].data["Sales_Invoice_No"] = NA THEN 0 ELSE 1)

\* C4 witness: a success with one item and no invoice number appended one
\* row, to Sheet2.
C4_Witness ==
    \E r \in Req :
        /\ Succeeded(r)
        /\ response[r].data["Sales_Invoice_No"] = NA
        /\ Len(response[r].data["Items"]) = 1
        /\ RowsBy(sink.Sheet1, r) = <<>>
        /\ Len(RowsBy(sink.Sheet2, r)) = 1

\* C4 (as claimed): a request that returns success has appended exactly one
\* header row and one row per item: 1 + the number of items.
C4_OneHeaderAppendPerSuccess ==
    \A r \in Req :
        Succeeded(r) =>
            /\ Len(RowsBy(sink.Sheet1, r)) = 1
            /\ Len(RowsBy(sink.Sheet2, r)) = Len(response[r].data["Items"])

\* C5 (as claimed): the record of the scenario text has the invoice number
\* 4021, the customer Acme Co, the date 01/02/2024 and the total 55.00.
C5_ScenarioRecord ==
    \A r \in Req :
        Succeeded(r) /\ raw_text[r] = ScenarioText =>
            /\ response[r].data["Sales_Invoice_No"] = PyStr("4021")
            /\ response[r].data["Customer_Name"] = PyStr("Acme Co")
            /\ response[r].data["Date"] = PyStr("01/02/2024")
            /\ response[r].data["Total_Summary"] = PyFloat("55.0")

\* C5 witness: the scenario's record has the three header fields, and the
\* default 0.0 as its total.
C5_Witness ==
    \E r \in Req :
        /\ Succeeded(r)
        /\ raw_text[r] = ScenarioText
        /\ response[r].data["Sales_Invoice_No"] = PyStr("4021")
        /\ response[r].data["Customer_Name"] = PyStr("Acme Co")
        /\ response[r].data["Date"] = PyStr("01/02/2024")
        /\ response[r].data["Total_Summary"] = Zero

\* C7: two requests that read the same bytes and both return success return
\* the same record and have each appended the same rows, so the sink holds
\* at least two copies of every row the record calls for.
C7_ResubmissionDuplicates ==
    \A r1, r2 \in Req :
        r1 # r2 /\ image_bytes[r1] = image_bytes[r2] /\ Succeeded(r1) /\ Succeeded(r2) =>
            /\ response[r1].data = response[r2].data
            /\ ValuesBy(sink.Sheet1, r1) = HeaderRows(response[r1].data)
            /\ ValuesBy(sink.Sheet1, r2) = ValuesBy(sink.Sheet1, r1)
            /\ ValuesBy(sink.Sheet2, r1) = ItemRows(response[r1].data)
            /\ ValuesBy(sink.Sheet2, r2) = ValuesBy(sink.Sheet2, r1)
            /\ \A i \in 1..Len(HeaderRows(response[r1].data)) :
                  Copies(sink.Sheet1, HeaderRows(response[r1].data)[i]) >= 2
            /\ \A i \in 1..Len(ItemRows(response[r1].data)) :
                  Copies(sink.Sheet2, ItemRows(response[r1].data)[i]) >= 2

\* C7 witness: the same invoice submitted twice: two header rows and twice
\* its two item rows.
C7_Witness ==
    /\ image_bytes[1] = Upload(InvoiceText)
    /\ image_bytes[2] = Upload(InvoiceText)
    /\ Succeeded(1)
    /\ Succeeded(2)
    /\ Len(RowsBy(sink.Sheet1, 1)) = 1
    /\ Len(RowsBy(sink.Sheet1, 2)) = 1
    /\ Len(RowsBy(sink.Sheet2, 1)) = 2
    /\ Len(RowsBy(sink.Sheet2, 2)) = 2

\* What a request's upload alone decides: its record, if step 4 builds one.
HasRecord(r) == image_bytes[r].valid /\ parsed[image_bytes[r].text].exc = ""

RecordAlone(r) == parsed[image_bytes[r].text].data

\* C8: under every interleaving, a request that returns success returns
\* the record its own upload decides, and the rows of each request in the
\* sink are, in the request's order, rows of its own record: all of them
\* once it has succeeded, none for a request without a record.
C8_RequestsDoNotInterfere ==
    \A r \in Req :
        /\ Succeeded(r) =>
              /\ HasRecord(r)
              /\ response[r].data = RecordAlone(r)
              /\ ValuesBy(sink.Sheet1, r) = HeaderRows(RecordAlone(r))
              /\ ValuesBy(sink.Sheet2, r) = ItemRows(RecordAlone(r))
        /\ HasRecord(r) =>
              /\ IsPrefix(ValuesBy(sink.Sheet1, r), HeaderRows(RecordAlone(r)))
              /\ IsPrefix(ValuesBy(sink.Sheet2, r), ItemRows(RecordAlone(r)))
        /\ ~HasRecord(r) => RowsBy(sink.Sheet1, r) = <<>> /\ RowsBy(sink.Sheet2, r) = <<>>

\* C8 witness: two requests with different invoices succeeded, their item
\* rows interleaved in Sheet2.
C8_Witness ==
    /\ Succeeded(1)
    /\ Succeeded(2)
    /\ raw_text[1] = InvoiceText
    /\ raw_text[2] = OrphanText
    /\ Len(sink.Sheet2) = 3
    /\ sink.Sheet2[1].by = 1
    /\ sink.Sheet2[2].by = 2
    /\ sink.Sheet2[3].by = 1

\* C9 (as claimed): every row of Sheet2 carries in its first column the
\* invoice number of a header row the same request appended to Sheet1 before.
C9_ItemRowsLinkToHeader ==
    \A i \in 1..Len(sink.Sheet2) :
        \E j \in 1..Len(sink.Sheet1) :
            /\ sink.Sheet1[j].by = sink.Sheet2[i].by
            /\ sink.Sheet1[j].values[1] = sink.Sheet2[i].values[1]
            /\ sink.Sheet2[i].values[1] # NA

\* C9 witness: an item row appended under 'N/A' by a request that appended no
\* header row.
C9_Witness ==
    \E i \in 1..Len(sink.Sheet2) :
        /\ sink.Sheet2[i].values[1] = NA
        /\ RowsBy(sink.Sheet1, sink.Sheet2[i].by) = <<>>

\* The rows a request's record calls for, Sheet1's first.
RowsCalledFor(r) == HeaderRows(extracted_data[r]) \o ItemRows(extracted_data[r])

RowsAppended(r) == ValuesBy(sink.Sheet1, r) \o ValuesBy(sink.Sheet2, r)

\* A request ended by the failure of an append.
SinkFailed(r) == pc[r] = "done" /\ response[r].detail = "HTTPException"

C10_FailedAppendEndsRequest ==
    \A r \in Req :
        /\ SinkFailed(r) =>
              /\ response[r].status_code = 500
              /\ IsPrefix(RowsAppended(r), RowsCalledFor(r))
              /\ Len(RowsAppended(r)) < Len(RowsCalledFor(r))
        /\ Succeeded(r) => RowsAppended(r) = RowsCalledFor(r)

C10_NoAppendAfterTheEnd ==
    \A r \in Req :
        pc[r] = "done" =>
            /\ RowsBy(sink.Sheet1, r)' = RowsBy(sink.Sheet1, r)
            /\ RowsBy(sink.Sheet2, r)' = RowsBy(sink.Sheet2, r)

\* C10: a request whose k-th append fails ends with a 500 error, the k-1
\* rows it appended before stay in the sink, a proper prefix of the rows
\* its record calls for, and it appends nothing afterwards; a request that
\* returns success has appended every row its record calls for.
C10_SinkFailureNotRolledBack == []C10_FailedAppendEndsRequest /\ [][C10_NoAppendAfterTheEnd]_vars

\* C10 witness: a request failed at its second item row: its header row and
\* first item row are in the sink.
C10_Witness ==
    \E r \in Req :
        /\ SinkFailed(r)
        /\ Len(RowsCalledFor(r)) = 3
        /\ Len(RowsBy(sink.Sheet1, r)) = 1
        /\ Len(RowsBy(sink.Sheet2, r)) = 1

====
